---- MODULE Spec2Model ----
(***************************************************************************)
(* Model of the bibliographic pipeline of scripts/make_abc.py (the         *)
(* normalizers norm_doi / norm_title, standardize and the cross-set merge  *)
(* of main) and scripts/parse_sciencedirect.py (the block extractor        *)
(* parse_sciencedirect_txt with its within-document de-duplication).       *)
(*                                                                         *)
(* A Python str is a sequence of one-character strings; every string       *)
(* operation (strip, lower, replace, re.search, re.sub, rstrip) is          *)
(* computed character by character, as the interpreter does.  A value      *)
(* that is not a str (the float NaN pandas gives an empty CSV cell) is the *)
(* value NaN.                                                              *)
(***************************************************************************)
EXTENDS Integers, Sequences, FiniteSets, TLC

VARIABLES
    raw, nparts, npc, doi1, doi2, title_out,     \* normalizer calls
    csv, mpc, out,                               \* make_abc.main
    sdf, spc, sout,                              \* one standardize call
    text, xpc, df                                \* parse_sciencedirect_txt

nvars == <<raw, nparts, npc, doi1, doi2, title_out>>
mvars == <<csv, mpc, out>>
svars == <<sdf, spc, sout>>
xvars == <<text, xpc, df>>
vars == <<raw, nparts, npc, doi1, doi2, title_out, csv, mpc, out, sdf, spc, sout, text, xpc, df>>

(***************************************************************************)
(* Characters and the str methods the scripts use.                         *)
(***************************************************************************)
Digits == {"0", "1", "2", "3", "4", "5", "6", "7", "8", "9"}
UpperCase == <<"A", "B", "C", "D", "E", "F", "G", "H", "I", "J", "K", "L", "M", "N", "O", "P", "Q", "R", "S", "T", "U", "V", "W", "X", "Y", "Z">>
LowerCase == <<"a", "b", "c", "d", "e", "f", "g", "h", "i", "j", "k", "l", "m", "n", "o", "p", "q", "r", "s", "t", "u", "v", "w", "x", "y", "z">>
Letters == {UpperCase[i] : i \in 1..Len(UpperCase)} \cup {LowerCase[i] : i \in 1..Len(LowerCase)}
WhiteSpace == {" ", "\t"}

\* a value that is not a str
NaN == <<"NaN">>
\* str(NaN), as Series.astype(str) renders it
NaNText == <<"n", "a", "n">>

\* regex class \d
IsDigit(c) == c \in Digits
\* regex class \s
IsSpace(c) == c \in WhiteSpace
\* regex class \S
IsNonSpace(c) == c \notin WhiteSpace
\* regex class \w: letters, digits and the underscore
IsWord(c) == c \in Letters \cup Digits \cup {"_"}

\* str.lower on one character
LowerChar(c) ==
    IF \E i \in 1..Len(UpperCase) : UpperCase[i] = c
    THEN LowerCase[CHOOSE i \in 1..Len(UpperCase) : UpperCase[i] = c]
    ELSE c

\* str.lower
lower(s) == [i \in 1..Len(s) |-> LowerChar(s[i])]

RECURSIVE lstrip(_, _)
\* str.lstrip(chars)
lstrip(s, chars) ==
    IF s # <<>> /\ Head(s) \in chars THEN lstrip(Tail(s), chars) ELSE s

RECURSIVE rstrip(_, _)
\* str.rstrip(chars)
rstrip(s, chars) ==
    IF s # <<>> /\ s[Len(s)] \in chars THEN rstrip(SubSeq(s, 1, Len(s) - 1), chars) ELSE s

\* str.strip(chars); strip() without argument strips whitespace
strip(s, chars) == rstrip(lstrip(s, chars), chars)

\* str.startswith
startswith(s, p) == Len(s) >= Len(p) /\ SubSeq(s, 1, Len(p)) = p

RECURSIVE replace_empty(_, _)
\* str.replace(old, ""): left to right, non-overlapping, one pass
replace_empty(s, old) ==
    IF Len(s) < Len(old) THEN s
    ELSE IF startswith(s, old) THEN replace_empty(SubSeq(s, Len(old) + 1, Len(s)), old)
    ELSE <<Head(s)>> \o replace_empty(Tail(s), old)

\* whether c is in the regex class \d, \s or \S
InClass(c, class) ==
    IF class = "d" THEN IsDigit(c)
    ELSE IF class = "s" THEN IsSpace(c)
    ELSE IsNonSpace(c)

\* the length of the longest run of characters of the class that starts at s[q]
RunLen(s, q, class) ==
    LET K == {k \in 0..(Len(s) - q + 1) : \A i \in q..(q + k - 1) : InClass(s[i], class)}
    IN  CHOOSE k \in K : \A j \in K : j <= k

HttpsDoiOrg == <<"h", "t", "t", "p", "s", ":", "/", "/", "d", "o", "i", ".", "o", "r", "g", "/">>
HttpDoiOrg == <<"h", "t", "t", "p", ":", "/", "/", "d", "o", "i", ".", "o", "r", "g", "/">>

(***************************************************************************)
(* The DOI pattern r"(10\.\d{4,9}/\S+)" and re.search with it.             *)
(***************************************************************************)
DoiMinDigits == 4
DoiMaxDigits == 9

\* The index of the last character of the pattern's match starting at s[p], 0 if
\* there is none.  \d{4,9} is greedy and must be followed by "/", so the whole
\* digit run is taken; \S+ is greedy and takes the whole non-space run.
DoiMatchEnd(s, p) ==
    IF p + 2 > Len(s) \/ s[p] # "1" \/ s[p + 1] # "0" \/ s[p + 2] # "."
    THEN 0
    ELSE LET n == RunLen(s, p + 3, "d")
             q == p + 3 + n
         IN  IF n < DoiMinDigits \/ n > DoiMaxDigits \/ q > Len(s) THEN 0
             ELSE IF s[q] # "/" THEN 0
             ELSE LET m == RunLen(s, q + 1, "S")
                  IN  IF m = 0 THEN 0 ELSE q + m

\* re.search: group(1) of the leftmost match, <<>> when there is no match (a
\* match is never empty)
DoiSearch(s) ==
    LET P == {p \in 1..Len(s) : DoiMatchEnd(s, p) # 0}
    IN  IF P = {} THEN <<>>
        ELSE LET p == CHOOSE x \in P : \A y \in P : x <= y
             IN  SubSeq(s, p, DoiMatchEnd(s, p))

TrailingPunct == {".", ",", ";", ")"}

(***************************************************************************)
(* make_abc.py: the normalizers.                                           *)
(***************************************************************************)
norm_doi(v) ==
    IF v = NaN THEN <<>>
    ELSE LET s1 == lower(strip(v, WhiteSpace))
             s2 == replace_empty(replace_empty(s1, HttpsDoiOrg), HttpDoiOrg)
             s3 == strip(strip(s2, WhiteSpace), {"."})
             m == DoiSearch(s3)
         IN  IF m # <<>> THEN rstrip(m, TrailingPunct) ELSE <<>>

\* mutant: the class also spares "." and "/", as r"[^\w\s./]" would
SubNonWordSparesDots(s) ==
    [i \in 1..Len(s) |->
        IF IsWord(s[i]) \/ IsSpace(s[i]) \/ s[i] \in {".", "/"} THEN s[i] ELSE " "]

\* re.sub(r"[^\w\s]", " ", s)
SubNonWord(s) == [i \in 1..Len(s) |-> IF IsWord(s[i]) \/ IsSpace(s[i]) THEN s[i] ELSE " "]

RECURSIVE SubSpaces(_)
\* re.sub(r"\s+", " ", s)
SubSpaces(s) ==
    IF s = <<>> THEN <<>>
    ELSE IF IsSpace(Head(s))
         THEN <<" ">> \o SubSpaces(SubSeq(s, RunLen(s, 1, "s") + 1, Len(s)))
         ELSE <<Head(s)>> \o SubSpaces(Tail(s))

norm_title(v) ==
    IF v = NaN THEN <<>>
    ELSE strip(SubSpaces(SubNonWord(lower(strip(v, WhiteSpace)))), WhiteSpace)

(***************************************************************************)
(* Calls of the normalizers.  The argument is typed in fragment by         *)
(* fragment; norm_doi is then applied once and once more to its own        *)
(* result, or norm_title is applied.                                       *)
(***************************************************************************)
MaxParts == 4

Fragments == {
    <<"1", "0", ".", "1", "2", "3", "4", "/">>,
    <<"x">>,
    <<",">>,
    <<"h", "t", "t", "p", ":", "/", "/", "d">>,
    <<"h", "t", "t", "p", ":", "/", "/", "d", "o", "i", ".", "o", "r", "g", "/">>,
    <<"o", "i", ".", "o", "r", "g", "/">>,
    <<" ">>,
    <<"_">>,
    <<"F", "o", "o">>,
    <<"!">>
}

InitNorm ==
    /\ raw = <<>>
    /\ nparts = 0
    /\ npc = "input"
    /\ doi1 = <<>>
    /\ doi2 = <<>>
    /\ title_out = <<>>

\* the caller extends the argument by one fragment
TypeFragment(f) ==
    /\ npc = "input"
    /\ nparts < MaxParts
    /\ raw' = raw \o f
    /\ nparts' = nparts + 1
    /\ UNCHANGED <<npc, doi1, doi2, title_out, mvars, svars, xvars>>

\* doi1 = norm_doi(raw)
CallNormDoi ==
    /\ npc = "input"
    /\ doi1' = norm_doi(raw)
    /\ npc' = "doi"
    /\ UNCHANGED <<raw, nparts, doi2, title_out, mvars, svars, xvars>>

\* doi2 = norm_doi(doi1)
CallNormDoiAgain ==
    /\ npc = "doi"
    /\ doi2' = norm_doi(doi1)
    /\ npc' = "doi_again"
    /\ UNCHANGED <<raw, nparts, doi1, title_out, mvars, svars, xvars>>

\* title_out = norm_title(raw)
CallNormTitle ==
    /\ npc = "input"
    /\ title_out' = norm_title(raw)
    /\ npc' = "title"
    /\ UNCHANGED <<raw, nparts, doi1, doi2, mvars, svars, xvars>>

NextNorm ==
    \/ \E f \in Fragments : TypeFragment(f)
    \/ CallNormDoi
    \/ CallNormDoiAgain
    \/ CallNormTitle

(***************************************************************************)
(* Python's order on str: code point by code point, a proper prefix first. *)
(* CodePoints lists the tab and the printable ASCII characters (without    *)
(* the double quote, the backslash and the backquote, which no input here  *)
(* holds) by increasing code point.                                        *)
(***************************************************************************)
CodePoints == <<
    "\t", " ", "!", "#", "$", "%", "&", "'", "(", ")", "*", "+", ",", "-", ".", "/",
    "0", "1", "2", "3", "4", "5", "6", "7", "8", "9", ":", ";", "<", "=", ">", "?",
    "@", "A", "B", "C", "D", "E", "F", "G", "H", "I", "J", "K", "L", "M", "N", "O",
    "P", "Q", "R", "S", "T", "U", "V", "W", "X", "Y", "Z", "[", "]", "^", "_", "a",
    "b", "c", "d", "e", "f", "g", "h", "i", "j", "k", "l", "m", "n", "o", "p", "q",
    "r", "s", "t", "u", "v", "w", "x", "y", "z", "{", "|", "}", "~">>

\* ord(c)
ord(c) == CHOOSE i \in 1..Len(CodePoints) : CodePoints[i] = c

\* a < b on str
StrLess(a, b) ==
    \E n \in 0..Len(a) :
        /\ n <= Len(b)
        /\ \A i \in 1..n : a[i] = b[i]
        /\ IF n = Len(a) THEN n < Len(b)
           ELSE n < Len(b) /\ ord(a[n + 1]) < ord(b[n + 1])

\* sorted(set(...)) of a set of str
sorted(S) ==
    [i \in 1..Cardinality(S) |->
        CHOOSE x \in S : Cardinality({y \in S : StrLess(y, x)}) = i - 1]

RECURSIVE join(_, _)
\* sep.join(parts)
join(sep, parts) ==
    IF parts = <<>> THEN <<>>
    ELSE IF Len(parts) = 1 THEN parts[1]
    ELSE parts[1] \o sep \o join(sep, Tail(parts))

(***************************************************************************)
(* make_abc.py: a DataFrame read from a CSV file is its column names and   *)
(* its rows, each row holding one value per column.  read_csv never gives  *)
(* a frame without columns, and an empty cell is NaN.                      *)
(***************************************************************************)
\* "col in df.columns"
HasColumn(frame, col) == \E i \in 1..Len(frame.columns) : frame.columns[i] = col

\* df[col]
Column(frame, col) ==
    LET c == CHOOSE i \in 1..Len(frame.columns) : frame.columns[i] = col
    IN  [r \in 1..Len(frame.rows) |-> frame.rows[r][c]]

\* df.iloc[:, 0]
FirstColumn(frame) == [r \in 1..Len(frame.rows) |-> frame.rows[r][1]]

\* a scalar "" broadcast over the frame's index
EmptyColumn(frame) == [r \in 1..Len(frame.rows) |-> <<>>]

DoiAliases == <<"DOI", "doi", "DOI Link", "Link", "DOI URL", "Article DOI", "url", "URL">>
UrlAliases == <<"url", "URL", "PDF Link", "Link">>
AuthorsAliases == <<"Authors", "authors", "Authors Full Names", "Author(s)">>
YearAliases == <<"Publication Year", "Year", "year">>
TitleAliases == <<"Title", "title">>

\* whether one of the alias names is a column of the frame
AnyAlias(frame, aliases) == \E i \in 1..Len(aliases) : HasColumn(frame, aliases[i])

\* mutant: the fallback of the title, df.iloc[:, 0], for every field
FirstAliasColumnOrFirst(frame, aliases) ==
    IF AnyAlias(frame, aliases)
    THEN LET i == CHOOSE k \in 1..Len(aliases) :
                      /\ HasColumn(frame, aliases[k])
                      /\ \A j \in 1..(k - 1) : ~HasColumn(frame, aliases[j])
         IN  Column(frame, aliases[i])
    ELSE FirstColumn(frame)

\* for col in aliases: if col in df.columns: x = df[col]; break -- and "" when x is None
FirstAliasColumn(frame, aliases) ==
    IF AnyAlias(frame, aliases)
    THEN LET i == CHOOSE k \in 1..Len(aliases) :
                      /\ HasColumn(frame, aliases[k])
                      /\ \A j \in 1..(k - 1) : ~HasColumn(frame, aliases[j])
         IN  Column(frame, aliases[i])
    ELSE EmptyColumn(frame)

\* df["Title"] if present, else df["title"] if present, else df.iloc[:, 0]
TitleColumn(frame) ==
    IF HasColumn(frame, "Title") THEN Column(frame, "Title")
    ELSE IF HasColumn(frame, "title") THEN Column(frame, "title")
    ELSE FirstColumn(frame)

\* r["doi_norm"] if r["doi_norm"] else r["title_norm"]
RecordKey(dn, tn) == IF dn # <<>> THEN dn ELSE tn

standardize(frame, qset) ==
    LET title == TitleColumn(frame)
        doi == FirstAliasColumn(frame, DoiAliases)
        url == FirstAliasColumn(frame, UrlAliases)
        authors == FirstAliasColumn(frame, AuthorsAliases)
        year == FirstAliasColumn(frame, YearAliases)
    IN  [r \in 1..Len(frame.rows) |->
            LET dn == norm_doi(doi[r])
                tn == norm_title(title[r])
            IN  [Title |-> title[r], DOI |-> doi[r], URL |-> url[r],
                 Authors |-> authors[r], Year |-> year[r], QuerySet |-> qset,
                 doi_norm |-> dn, title_norm |-> tn, key |-> RecordKey(dn, tn)]]

(***************************************************************************)
(* make_abc.py: main.                                                      *)
(***************************************************************************)
\* mutant: the third frame is left out of the concatenation
concat_without_C(A, B, C) == A \o B

\* pd.concat([A, B, C], ignore_index=True)
concat(A, B, C) == A \o B \o C

\* mutant: dropna also drops the empty-string key
groupby_keys_drop_empty(frame, dropna) ==
    {frame[i].key : i \in 1..Len(frame)} \ (IF dropna THEN {NaN, <<>>} ELSE {})

\* the group keys of frame.groupby("key", dropna=dropna)
groupby_keys(frame, dropna) ==
    {frame[i].key : i \in 1..Len(frame)} \ (IF dropna THEN {NaN} ELSE {})

\* the rows of one group, in the frame's order
get_group(frame, k) == SelectSeq(frame, LAMBDA r : r.key = k)

\* len(str(title)), as g["Title"].astype(str).apply(len)
title_len(title) == IF title = NaN THEN Len(NaNText) ELSE Len(title)

\* 1 if s else 0
has_doi(dn) == IF dn # <<>> THEN 1 ELSE 0

\* mutant: an unstable sort that leaves tied rows in reverse order
SortsBeforeTiesReversed(g, i, j) ==
    \/ g[i].has_doi > g[j].has_doi
    \/ g[i].has_doi = g[j].has_doi /\ g[i].title_len > g[j].title_len
    \/ g[i].has_doi = g[j].has_doi /\ g[i].title_len = g[j].title_len /\ i > j

\* whether row i stands before row j after
\* g.sort_values(["has_doi", "title_len"], ascending=[False, False]);
\* a sort on several columns is a lexsort, which is stable
SortsBefore(g, i, j) ==
    \/ g[i].has_doi > g[j].has_doi
    \/ g[i].has_doi = g[j].has_doi /\ g[i].title_len > g[j].title_len
    \/ g[i].has_doi = g[j].has_doi /\ g[i].title_len = g[j].title_len /\ i < j

sort_values(g) ==
    [p \in 1..Len(g) |->
        g[CHOOSE i \in 1..Len(g) :
              Cardinality({j \in 1..Len(g) : SortsBefore(g, j, i)}) = p - 1]]

\* the Series pick_rep returns for a (non-empty) group
pick_rep(grp) ==
    LET g == [i \in 1..Len(grp) |->
                 [Title |-> grp[i].Title, DOI |-> grp[i].DOI, URL |-> grp[i].URL,
                  Authors |-> grp[i].Authors, Year |-> grp[i].Year,
                  QuerySet |-> grp[i].QuerySet, doi_norm |-> grp[i].doi_norm,
                  title_norm |-> grp[i].title_norm, key |-> grp[i].key,
                  has_doi |-> has_doi(grp[i].doi_norm),
                  title_len |-> title_len(grp[i].Title)]]
    IN  sort_values(g)[1]

\* all_df.groupby("key", dropna=False).apply(pick_rep).reset_index(drop=True):
\* one row per group, the groups in the order of their keys
group_reps(all_df) ==
    LET keys == sorted(groupby_keys(all_df, FALSE))
    IN  [i \in 1..Len(keys) |-> pick_rep(get_group(all_df, keys[i]))]

\* mutant: "|".join(sorted(s)), without set()
join_labels_with_duplicates(s) == join(<<"|">>, SortSeq(s, StrLess))

\* lambda s: "|".join(sorted(set(s)))
join_labels(s) == join(<<"|">>, sorted({s[i] : i \in 1..Len(s)}))

\* all_df.groupby("key")["QuerySet"].apply(...).reset_index()
group_qsets(all_df) ==
    LET keys == sorted(groupby_keys(all_df, TRUE))
    IN  [i \in 1..Len(keys) |->
            [key |-> keys[i],
             QuerySet |-> join_labels([j \in 1..Len(get_group(all_df, keys[i])) |->
                                          get_group(all_df, keys[i])[j].QuerySet])]]

RECURSIVE merge_on_key(_, _)
\* reps.merge(qsets, on="key", suffixes=("", "_merged")), an inner join in the
\* order of the left frame, then QuerySets = QuerySet_merged and the drop of
\* QuerySet_merged
merge_on_key(reps, qsets) ==
    IF reps = <<>> THEN <<>>
    ELSE LET l == Head(reps)
             hits == SelectSeq(qsets, LAMBDA q : q.key = l.key)
         IN  [h \in 1..Len(hits) |->
                 [Title |-> l.Title, DOI |-> l.DOI, URL |-> l.URL,
                  Authors |-> l.Authors, Year |-> l.Year, QuerySet |-> l.QuerySet,
                  doi_norm |-> l.doi_norm, title_norm |-> l.title_norm,
                  key |-> l.key, has_doi |-> l.has_doi, title_len |-> l.title_len,
                  QuerySets |-> hits[h].QuerySet]]
             \o merge_on_key(Tail(reps), qsets)

\* set(A["key"])
key_set(frame) == {frame[i].key : i \in 1..Len(frame)}

\* merged[out_cols], the rows written to --out
out_cols(merged) ==
    [i \in 1..Len(merged) |->
        [Title |-> merged[i].Title, Authors |-> merged[i].Authors,
         Year |-> merged[i].Year, DOI |-> merged[i].DOI, URL |-> merged[i].URL,
         QuerySets |-> merged[i].QuerySets]]

\* reps, qsets and merged, from all_df
cross_dedup(all_df) == merge_on_key(group_reps(all_df), group_qsets(all_df))

\* the totals, the intersections and the saved rows, from A, B, C and merged
report(A, B, C, merged) ==
    LET initial_total == Len(A) + Len(B) + Len(C)
        final_total == Len(merged)
        A_keys == key_set(A)
        B_keys == key_set(B)
        C_keys == key_set(C)
    IN  [A |-> A, B |-> B, C |-> C,
         merged |-> merged,
         initial_total |-> initial_total,
         final_total |-> final_total,
         removed |-> initial_total - final_total,
         written |-> out_cols(merged),
         stats |-> [A_only |-> Cardinality((A_keys \ B_keys) \ C_keys),
                    B_only |-> Cardinality((B_keys \ A_keys) \ C_keys),
                    C_only |-> Cardinality((C_keys \ A_keys) \ B_keys),
                    AB |-> Cardinality((A_keys \cap B_keys) \ C_keys),
                    AC |-> Cardinality((A_keys \cap C_keys) \ B_keys),
                    BC |-> Cardinality((B_keys \cap C_keys) \ A_keys),
                    ABC |-> Cardinality(A_keys \cap B_keys \cap C_keys)]]

\* main after the three standardize calls
merge_sets(A, B, C) == report(A, B, C, cross_dedup(concat(A, B, C)))

\* everything main computes from the three frames read from --a, --b and --c
main(files) ==
    merge_sets(standardize(files.a, <<"A">>),
               standardize(files.b, <<"B">>),
               standardize(files.c, <<"C">>))

(***************************************************************************)
(* One run of make_abc.py.  The three CSV files are filled row by row,     *)
(* then main runs.  File --a has the columns Title, DOI; --b has title,    *)
(* doi; --c has Title, Link.  A row holds a title and a DOI cell.          *)
(***************************************************************************)
MaxRows == 3

RowPool == {
    <<<<"F", "o", "o">>, <<"1", "0", ".", "1", "/", "x">>>>,
    <<<<"F", "o", "o">>, NaN>>,
    <<<<"F", "o", "o">>, <<"1", "0", ".", "1", "2", "3", "4", "/", "x">>>>,
    <<<<"F", "o", "o", " ", "B", "a", "r">>, <<"h", "t", "t", "p", "s", ":", "/", "/", "d", "o", "i", ".", "o", "r", "g", "/", "1", "0", ".", "1", "2", "3", "4", "/", "X">>>>,
    <<NaN, NaN>>,
    <<<<"1", "0", ".", "1", "2", "3", "4", "/", "x">>, NaN>>
}

NoOutput ==
    [A |-> <<>>, B |-> <<>>, C |-> <<>>, merged |-> <<>>, initial_total |-> 0,
     final_total |-> 0, removed |-> 0, written |-> <<>>,
     stats |-> [A_only |-> 0, B_only |-> 0, C_only |-> 0, AB |-> 0, AC |-> 0,
                BC |-> 0, ABC |-> 0]]

InitMerge ==
    /\ csv = [a |-> [columns |-> <<"Title", "DOI">>, rows |-> <<>>],
              b |-> [columns |-> <<"title", "doi">>, rows |-> <<>>],
              c |-> [columns |-> <<"Title", "Link">>, rows |-> <<>>]]
    /\ mpc = "input"
    /\ out = NoOutput

TotalRows == Len(csv.a.rows) + Len(csv.b.rows) + Len(csv.c.rows)

\* one more row in one of the three input files
AddRow(f, r) ==
    /\ mpc = "input"
    /\ TotalRows < MaxRows
    /\ csv' = [csv EXCEPT ![f].rows = Append(@, r)]
    /\ UNCHANGED <<mpc, out, nvars, svars, xvars>>

\* python make_abc.py --a ... --b ... --c ... --out ...
RunMain ==
    /\ mpc = "input"
    /\ out' = main(csv)
    /\ mpc' = "done"
    /\ UNCHANGED <<csv, nvars, svars, xvars>>

NextMerge ==
    \/ \E f \in {"a", "b", "c"}, r \in RowPool : AddRow(f, r)
    \/ RunMain

(***************************************************************************)
(* Properties of the merge.                                                *)
(***************************************************************************)
\* the standardized input records, A's first, then B's, then C's
InputRows == out.A \o out.B \o out.C

\* the NormalizedKeys occurring in A, B or C
InputKeys == {InputRows[i].key : i \in 1..Len(InputRows)}

\* the rows of the merge output with key k
MergedWithKey(k) == {i \in 1..Len(out.merged) : out.merged[i].key = k}

\* C1: after main, the merge output has exactly one row per distinct
\* NormalizedKey occurring in A, B or C (the empty-string key included), the
\* written file has as many rows, and the reported removed count is
\* len(A) + len(B) + len(C) - len(merged).
C1_OneRowPerKey ==
    mpc = "done" =>
        /\ Len(out.merged) = Cardinality(InputKeys)
        /\ \A k \in InputKeys : Cardinality(MergedWithKey(k)) = 1
        /\ \A i \in 1..Len(out.merged) : out.merged[i].key \in InputKeys
        /\ Len(out.written) = Len(out.merged)
        /\ out.removed =
               Len(csv.a.rows) + Len(csv.b.rows) + Len(csv.c.rows) - Len(out.merged)

\* a run whose inputs hold the empty-string key and a duplicated key
C1_Witness ==
    /\ mpc = "done"
    /\ <<>> \in InputKeys
    /\ out.removed > 0
    /\ Len(out.merged) > 1

\* the candidates of key k, as indices of InputRows
Members(k) == {i \in 1..Len(InputRows) : InputRows[i].key = k}

\* the length of the raw title as a string
RawTitleLength(t) == IF t = NaN THEN Len(NaNText) ELSE Len(t)

\* candidate j is strictly preferred to candidate i: it has a DOI and i has
\* none, or they are equally DOI-qualified and j's title is longer
Preferred(j, i) ==
    LET dj == InputRows[j].doi_norm # <<>>
        di == InputRows[i].doi_norm # <<>>
    IN  \/ dj /\ ~di
        \/ dj = di /\ RawTitleLength(InputRows[j].Title) > RawTitleLength(InputRows[i].Title)

\* the earliest, in A-then-B-then-C order, of the candidates no other is preferred to
FirstBest(k) ==
    LET best == {i \in Members(k) : \A j \in Members(k) : ~Preferred(j, i)}
    IN  CHOOSE i \in best : \A j \in best : i <= j

SameRecord(m, r) ==
    /\ m.Title = r.Title
    /\ m.DOI = r.DOI
    /\ m.URL = r.URL
    /\ m.Authors = r.Authors
    /\ m.Year = r.Year
    /\ m.QuerySet = r.QuerySet

ExampleA == <<<<"F", "o", "o">>, <<"1", "0", ".", "1", "/", "x">>>>
ExampleB == <<<<"F", "o", "o">>, NaN>>
ExampleInput ==
    /\ csv.a.rows = <<ExampleA>>
    /\ csv.b.rows = <<ExampleB>>
    /\ csv.c.rows = <<>>

\* C6: in every key-group the representative is a member of the group that is
\* first under (has non-empty normalized DOI descending, raw title length
\* descending), the earliest in A-then-B-then-C order among those tied; and for
\* A = {DOI 10.1/x, title Foo}, B = {no DOI, title Foo} the output is one
\* record, A's.
C6_Representative ==
    mpc = "done" =>
        /\ \A i \in 1..Len(out.merged) :
               /\ Members(out.merged[i].key) # {}
               /\ SameRecord(out.merged[i], InputRows[FirstBest(out.merged[i].key)])
        /\ ExampleInput =>
               /\ Len(out.merged) = 1
               /\ out.merged[1].QuerySet = <<"A">>
               /\ out.merged[1].Title = ExampleA[1]
               /\ out.merged[1].DOI = ExampleA[2]

\* the example run: A's record and B's record tie on both criteria
C6_Witness ==
    /\ mpc = "done"
    /\ ExampleInput
    /\ out.merged[1].QuerySets = <<"A", "|", "B">>

\* the labels, in alphabetical order, of the collections that hold key k
HoldingLabels(k) ==
    SelectSeq(<<[l |-> <<"A">>, rows |-> out.A], [l |-> <<"B">>, rows |-> out.B],
                [l |-> <<"C">>, rows |-> out.C]>>,
              LAMBDA e : \E i \in 1..Len(e.rows) : e.rows[i].key = k)

\* C7: the QuerySets of the merged record with key k is the '|'-joined,
\* alphabetically sorted, duplicate-free list of the labels of the collections
\* holding a record with key k, whichever record is the representative.
C7_QuerySets ==
    mpc = "done" =>
        \A i \in 1..Len(out.merged) :
            LET h == HoldingLabels(out.merged[i].key)
            IN  out.merged[i].QuerySets = join(<<"|">>, [j \in 1..Len(h) |-> h[j].l])

\* a key held twice by A and once by C, its representative coming from C
C7_Witness ==
    /\ mpc = "done"
    /\ \E i \in 1..Len(out.merged) :
           /\ out.merged[i].QuerySets = <<"A", "|", "C">>
           /\ out.merged[i].QuerySet = <<"C">>
           /\ Cardinality({j \in 1..Len(out.A) : out.A[j].key = out.merged[i].key}) = 2

\* the assignments of the three collections to the arguments --a, --b, --c
Assignments ==
    {p \in [{"a", "b", "c"} -> {"a", "b", "c"}] : \A x, y \in {"a", "b", "c"} : p[x] = p[y] => x = y}

Reassigned(p) == [a |-> csv[p["a"]], b |-> csv[p["b"]], c |-> csv[p["c"]]]

LabelOf(f) == IF f = "a" THEN <<"A">> ELSE IF f = "b" THEN <<"B">> ELSE <<"C">>

\* the label that the collection labelled l gets under p
Relabel(p, l) == LabelOf(CHOOSE f \in {"a", "b", "c"} : LabelOf(p[f]) = l)

\* the labels of a QuerySets string
LabelsIn(qs) == {<<qs[i]>> : i \in {j \in 1..Len(qs) : qs[j] # "|"}}

\* C9: running main with the three collections assigned to the labels in
\* any other way gives the same set of MergedRecord keys, and for every key
\* the QuerySets string that is the original one relabelled and re-sorted.
C9_Relabeling ==
    mpc = "done" =>
        \A p \in Assignments :
            LET other == main(Reassigned(p)).merged
            IN  /\ {other[i].key : i \in 1..Len(other)}
                       = {out.merged[i].key : i \in 1..Len(out.merged)}
                /\ \A i \in 1..Len(other), j \in 1..Len(out.merged) :
                       other[i].key = out.merged[j].key =>
                           other[i].QuerySets =
                               join(<<"|">>, sorted({Relabel(p, l) : l \in LabelsIn(out.merged[j].QuerySets)}))

\* a key held by A and B only while C holds another key
C9_Witness ==
    /\ mpc = "done"
    /\ Len(out.C) > 0
    /\ \E i \in 1..Len(out.merged) : out.merged[i].QuerySets = <<"A", "|", "B">>
    /\ \E i \in 1..Len(out.merged) : out.merged[i].QuerySets = <<"C">>

Contains(s, c) == \E i \in 1..Len(s) : s[i] = c

\* C10: a non-empty norm_doi result holds '.' and '/', a norm_title result
\* neither, so the members of a key-group have the same has-DOI status: all have
\* the key as normalized DOI, or all have an empty normalized DOI.
C10_KeysDisjoint ==
    mpc = "done" =>
        /\ \A i \in 1..Len(InputRows) :
               /\ InputRows[i].doi_norm # <<>> =>
                      /\ Contains(InputRows[i].doi_norm, ".")
                      /\ Contains(InputRows[i].doi_norm, "/")
                      /\ InputRows[i].key = InputRows[i].doi_norm
               /\ ~Contains(InputRows[i].title_norm, ".")
               /\ ~Contains(InputRows[i].title_norm, "/")
        /\ \A i, j \in 1..Len(InputRows) :
               InputRows[i].key = InputRows[j].key =>
                   (InputRows[i].doi_norm # <<>>) = (InputRows[j].doi_norm # <<>>)

\* a DOI-less record whose title reads as the DOI of another record, and a
\* DOI-less record with the title of a record that has a DOI
C10_Witness ==
    /\ mpc = "done"
    /\ \E i, j \in 1..Len(InputRows) :
           /\ InputRows[i].doi_norm = <<>>
           /\ InputRows[i].Title = InputRows[j].doi_norm
           /\ InputRows[i].key # InputRows[j].key
    /\ \E i, j \in 1..Len(InputRows) :
           /\ InputRows[i].doi_norm = <<>>
           /\ InputRows[j].doi_norm # <<>>
           /\ InputRows[i].title_norm = InputRows[j].title_norm

(***************************************************************************)
(* One call of standardize on a frame whose header and rows are chosen     *)
(* freely: the columns are added one by one, then the rows, then the frame *)
(* is standardized.                                                        *)
(***************************************************************************)
MaxCols == 2
MaxStdRows == 1

ColumnPool == {"Title", "Name", "DOI", "Link", "URL", "Authors", "Year"}

CellPool == {<<"F", "o", "o">>, <<"1", "0", ".", "1", "2", "3", "4", "/", "x">>}

InitStd ==
    /\ sdf = [columns |-> <<>>, rows |-> <<>>]
    /\ spc = "input"
    /\ sout = <<>>

\* the header of the CSV file gets one more column
AddColumn(c) ==
    /\ spc = "input"
    /\ sdf.rows = <<>>
    /\ Len(sdf.columns) < MaxCols
    /\ ~HasColumn(sdf, c)
    /\ sdf' = [sdf EXCEPT !.columns = Append(@, c)]
    /\ UNCHANGED <<spc, sout, nvars, mvars, xvars>>

\* the CSV file gets one more row
AddStdRow(r) ==
    /\ spc = "input"
    /\ Len(sdf.columns) >= 1
    /\ Len(sdf.rows) < MaxStdRows
    /\ sdf' = [sdf EXCEPT !.rows = Append(@, r)]
    /\ UNCHANGED <<spc, sout, nvars, mvars, xvars>>

\* standardize(read_csv_any(path), "A"); read_csv raises on a file without columns
CallStandardize ==
    /\ spc = "input"
    /\ Len(sdf.columns) >= 1
    /\ sout' = standardize(sdf, <<"A">>)
    /\ spc' = "done"
    /\ UNCHANGED <<sdf, nvars, mvars, xvars>>

NextStd ==
    \/ \E c \in ColumnPool : AddColumn(c)
    \/ \E r \in [1..Len(sdf.columns) -> CellPool] : AddStdRow(r)
    \/ CallStandardize

\* none of the alias names is a column of the input collection
NoAliasPresent(aliases) ==
    \A i \in 1..Len(aliases), j \in 1..Len(sdf.columns) : sdf.columns[j] # aliases[i]

None == <<"None">>

HttpPrefix == <<"h", "t", "t", "p", ":", "/", "/">>
HttpsPrefix == <<"h", "t", "t", "p", "s", ":", "/", "/">>
DoiPrefix == <<"d", "o", "i", ":">>

\* _norm_doi: the prefixes are removed before the string is lowered
_norm_doi(v) ==
    IF v = None \/ v = NaN THEN <<>>
    ELSE LET s1 == strip(v, WhiteSpace)
             s2 == replace_empty(replace_empty(s1, HttpsDoiOrg), HttpDoiOrg)
             s3 == lower(strip(strip(s2, WhiteSpace), {"."}))
             m == DoiSearch(s3)
         IN  IF m # <<>> THEN rstrip(m, TrailingPunct) ELSE <<>>

\* URL_PAT = r"(https?://\S+)": the index of the last character of the match
\* starting at s[p], 0 if there is none
UrlMatchEnd(s, p) ==
    LET q == IF p + 4 <= Len(s) /\ s[p + 4] = "s" THEN p + 5 ELSE p + 4
    IN  IF p + 3 > Len(s) \/ SubSeq(s, p, p + 3) # <<"h", "t", "t", "p">> THEN 0
        ELSE IF q + 2 > Len(s) \/ SubSeq(s, q, q + 2) # <<":", "/", "/">> THEN 0
        ELSE LET m == RunLen(s, q + 3, "S")
             IN  IF m = 0 THEN 0 ELSE q + 2 + m

\* URL_PAT.search(s): group(1) of the leftmost match, <<>> when there is none
UrlSearch(s) ==
    LET P == {p \in 1..Len(s) : UrlMatchEnd(s, p) # 0}
    IN  IF P = {} THEN <<>>
        ELSE LET p == CHOOSE x \in P : \A y \in P : x <= y
             IN  SubSeq(s, p, UrlMatchEnd(s, p))

\* YEAR_PAT = r"\b(20\d{2}|19\d{2})\b" matches at s[p]
YearMatchAt(s, p) ==
    /\ p + 3 <= Len(s)
    /\ \/ s[p] = "2" /\ s[p + 1] = "0"
       \/ s[p] = "1" /\ s[p + 1] = "9"
    /\ IsDigit(s[p + 2])
    /\ IsDigit(s[p + 3])
    /\ p = 1 \/ ~IsWord(s[p - 1])
    /\ p + 3 = Len(s) \/ ~IsWord(s[p + 4])

\* YEAR_PAT.search(s): group(1) of the leftmost match, <<>> when there is none
YearSearch(s) ==
    LET P == {p \in 1..Len(s) : YearMatchAt(s, p)}
    IN  IF P = {} THEN <<>>
        ELSE LET p == CHOOSE x \in P : \A y \in P : x <= y
             IN  SubSeq(s, p, p + 3)

TitleLookback == 3
YearRadius == 5

\* a line that may be a title: non-empty, and not starting with http://, https:// or doi:
TitleLine(ln) ==
    /\ ln # <<>>
    /\ ~startswith(lower(ln), HttpPrefix)
    /\ ~startswith(lower(ln), HttpsPrefix)
    /\ ~startswith(lower(ln), DoiPrefix)

\* mutant: the lookback window is scanned from its far end, i-3 first
find_title_farthest_first(lines, i) ==
    LET J == {j \in (i - TitleLookback)..(i - 1) : j >= 1 /\ TitleLine(lines[j])}
    IN  IF J = {} THEN None
        ELSE lines[CHOOSE j \in J : \A k \in J : k >= j]

\* for j in range(i - 1, max(-1, i - 4), -1): the nearest of the three lines
\* before line i that may be a title (lines are counted from 1 here)
find_title(lines, i) ==
    LET J == {j \in (i - TitleLookback)..(i - 1) : j >= 1 /\ TitleLine(lines[j])}
    IN  IF J = {} THEN None
        ELSE lines[CHOOSE j \in J : \A k \in J : k <= j]

\* " ".join(lines[max(0, i - 5): i + 6])
year_window(lines, i) ==
    LET lo == IF i - YearRadius < 1 THEN 1 ELSE i - YearRadius
        hi == IF i + YearRadius > Len(lines) THEN Len(lines) ELSE i + YearRadius
    IN  join(<<" ">>, SubSeq(lines, lo, hi))

find_year(lines, i) ==
    LET ym == YearSearch(year_window(lines, i))
    IN  IF ym # <<>> THEN ym ELSE None

\* URL_PAT.search(ln) or (URL_PAT.search(lines[i - 1]) if i > 0 else None)
find_url(lines, i) ==
    LET here == UrlSearch(lines[i])
        prev == IF i > 1 THEN UrlSearch(lines[i - 1]) ELSE <<>>
        url_m == IF here # <<>> THEN here ELSE prev
    IN  IF url_m # <<>> THEN rstrip(url_m, TrailingPunct) ELSE None

\* a line with a DOI_PAT match
IsAnchor(ln) == DoiSearch(ln) # <<>>

\* the record appended for anchor line i
make_record(lines, i) ==
    [source |-> "ScienceDirect",
     title |-> find_title(lines, i),
     authors |-> None,
     year |-> find_year(lines, i),
     doi |-> rstrip(DoiSearch(lines[i]), TrailingPunct),
     url |-> find_url(lines, i)]

RECURSIVE collect_records(_, _)
\* the loop over enumerate(lines), from line i on
collect_records(lines, i) ==
    IF i > Len(lines) THEN <<>>
    ELSE IF IsAnchor(lines[i])
         THEN <<make_record(lines, i)>> \o collect_records(lines, i + 1)
         ELSE collect_records(lines, i + 1)

\* mutant: the de-duplication column is the extracted DOI as it stands
doi_norm_column_raw(records) == [i \in 1..Len(records) |-> records[i].doi]

\* df["doi_norm"] = df["doi"].map(_norm_doi)
doi_norm_column(records) == [i \in 1..Len(records) |-> _norm_doi(records[i].doi)]

RECURSIVE drop_from(_, _, _)
\* the rows from row i on whose subset value no earlier row has
drop_from(records, subset, i) ==
    IF i > Len(records) THEN <<>>
    ELSE IF \E j \in 1..(i - 1) : subset[j] = subset[i]
         THEN drop_from(records, subset, i + 1)
         ELSE <<records[i]>> \o drop_from(records, subset, i + 1)

\* df.drop_duplicates(subset=["doi_norm"]).drop(columns=["doi_norm"]): the
\* first row of each value is kept
drop_duplicates(records) == drop_from(records, doi_norm_column(records), 1)

\* text is the sequence text.splitlines()
parse_sciencedirect_txt(txt) ==
    LET lines == [i \in 1..Len(txt) |-> strip(txt[i], WhiteSpace)]
        records == collect_records(lines, 1)
    IN  IF records # <<>> THEN drop_duplicates(records) ELSE records

(***************************************************************************)
(* One call of parse_sciencedirect_txt on a document written line by line. *)
(***************************************************************************)
MaxLines == 4

LinePool == {
    <<"S", "o", "m", "e", " ", "T", "i", "t", "l", "e">>,
    <<"S", "p", "r", "i", "n", "g", "e", "r", ",", " ", "2", "0", "1", "9">>,
    <<"1", "0", ".", "1", "0", "0", "7", "/", "x", "y", "z", "-", "1", "2", "3">>,
    <<"h", "t", "t", "p", "s", ":", "/", "/", "d", "o", "i", ".", "o", "r", "g", "/", "1", "0", ".", "1", "0", "0", "7", "/", "x", "y", "z", "-", "1", "2", "3">>,
    <<>>,
    <<" ", "1", "0", ".", "1", "0", "0", "7", "/", "X", "Y", "Z", "-", "1", "2", "3", ".">>,
    <<"1", "0", ".", "1", "2", "3", "4", "/", ",">>,
    <<"1", "0", ".", "1", "2", "3", "4", "5", "/", ";">>
}

InitExtract ==
    /\ text = <<>>
    /\ xpc = "input"
    /\ df = <<>>

\* the document gets one more line
AppendLine(ln) ==
    /\ xpc = "input"
    /\ Len(text) < MaxLines
    /\ text' = Append(text, ln)
    /\ UNCHANGED <<xpc, df, nvars, mvars, svars>>

\* df = parse_sciencedirect_txt(text)
CallParse ==
    /\ xpc = "input"
    /\ df' = parse_sciencedirect_txt(text)
    /\ xpc' = "parsed"
    /\ UNCHANGED <<text, nvars, mvars, svars>>

NextExtract ==
    \/ \E ln \in LinePool : AppendLine(ln)
    \/ CallParse

(***************************************************************************)
(* Properties of the extractor.                                            *)
(***************************************************************************)
StrippedLines == [i \in 1..Len(text) |-> strip(text[i], WhiteSpace)]

\* the anchor lines of the document
Anchors == {i \in 1..Len(text) : IsAnchor(StrippedLines[i])}

\* the DOI extracted from anchor line i
AnchorDoi(i) == rstrip(DoiSearch(StrippedLines[i]), TrailingPunct)

\* C4: the returned records have pairwise distinct normalized DOIs; for each
\* normalized-DOI value among the anchor lines the survivor is the record of the
\* first anchor line with that value; survivors keep their line order; the
\* anchors whose DOI normalizes to the empty string leave at most one record.
C4_WithinDocumentDedup ==
    xpc = "parsed" =>
        LET lines == StrippedLines
            anchors == {i \in 1..Len(lines) : IsAnchor(lines[i])}
            norm == [i \in anchors |-> _norm_doi(rstrip(DoiSearch(lines[i]), TrailingPunct))]
            first == {i \in anchors : \A j \in anchors : j < i => norm[j] # norm[i]}
            nth == [n \in 1..Cardinality(first) |->
                       CHOOSE i \in first : Cardinality({j \in first : j < i}) = n - 1]
            got == [n \in 1..Len(df) |-> _norm_doi(df[n].doi)]
        IN  /\ Len(df) = Cardinality(first)
            /\ \A n \in 1..Len(df) : df[n] = make_record(lines, nth[n])
            /\ \A m, n \in 1..Len(df) : m # n => got[m] # got[n]
            /\ {got[n] : n \in 1..Len(df)} = {norm[i] : i \in anchors}
            /\ Cardinality({n \in 1..Len(df) : got[n] = <<>>}) <= 1

\* two anchors with different extracted DOIs and one normalized DOI, and two
\* anchors with different extracted DOIs that both normalize to the empty string
C4_Witness ==
    /\ xpc = "parsed"
    /\ Len(df) = 2
    /\ \E i, j \in Anchors :
           /\ i < j
           /\ AnchorDoi(i) # AnchorDoi(j)
           /\ _norm_doi(AnchorDoi(i)) = _norm_doi(AnchorDoi(j))
           /\ _norm_doi(AnchorDoi(i)) # <<>>
    /\ \E i, j \in Anchors :
           /\ i < j
           /\ AnchorDoi(i) # AnchorDoi(j)
           /\ _norm_doi(AnchorDoi(i)) = <<>>
           /\ _norm_doi(AnchorDoi(j)) = <<>>

ExampleDocument == <<
    <<"S", "o", "m", "e", " ", "T", "i", "t", "l", "e">>,
    <<"S", "p", "r", "i", "n", "g", "e", "r", ",", " ", "2", "0", "1", "9">>,
    <<"1", "0", ".", "1", "0", "0", "7", "/", "x", "y", "z", "-", "1", "2", "3">>,
    <<"h", "t", "t", "p", "s", ":", "/", "/", "d", "o", "i", ".", "o", "r", "g", "/", "1", "0", ".", "1", "0", "0", "7", "/", "x", "y", "z", "-", "1", "2", "3">>>>

ExampleDoi == <<"1", "0", ".", "1", "0", "0", "7", "/", "x", "y", "z", "-", "1", "2", "3">>

\* the url of the anchor line (the third line) or of the line before it
ExampleUrl ==
    IF UrlSearch(ExampleDocument[3]) # <<>> THEN rstrip(UrlSearch(ExampleDocument[3]), TrailingPunct)
    ELSE IF UrlSearch(ExampleDocument[2]) # <<>> THEN rstrip(UrlSearch(ExampleDocument[2]), TrailingPunct)
    ELSE None

\* C5 as stated: the example document yields exactly one record, with title
\* "Some Title", year "2019", doi "10.1007/xyz-123" and the url of the anchor
\* line or of the line before it.
C5_ExampleSomeTitle ==
    (xpc = "parsed" /\ text = ExampleDocument) =>
        /\ Len(df) = 1
        /\ df[1].title = <<"S", "o", "m", "e", " ", "T", "i", "t", "l", "e">>
        /\ df[1].year = <<"2", "0", "1", "9">>
        /\ df[1].doi = ExampleDoi
        /\ df[1].url = ExampleUrl

\* C5 amended: the example document yields exactly one record, with title
\* "Springer, 2019" (the nearest line before the anchor that may be a title),
\* year "2019", doi "10.1007/xyz-123" and no url (neither the anchor line nor
\* the line before it holds one).
C5_ExampleNearestTitle ==
    (xpc = "parsed" /\ text = ExampleDocument) =>
        /\ Len(df) = 1
        /\ df[1].title = <<"S", "p", "r", "i", "n", "g", "e", "r", ",", " ", "2", "0", "1", "9">>
        /\ df[1].year = <<"2", "0", "1", "9">>
        /\ df[1].doi = ExampleDoi
        /\ df[1].url = None

\* the example document has been parsed
C5_Witness ==
    /\ xpc = "parsed"
    /\ text = ExampleDocument
    /\ Len(df) = 1
    /\ Cardinality(Anchors) = 2

(***************************************************************************)
(* Properties of the normalizers.                                          *)
(***************************************************************************)
\* C2: norm_doi is idempotent: applied to its own result it returns that result.
C2_NormDoiIdempotent == npc = "doi_again" => doi2 = doi1

\* C3: norm_title(t) holds only alphanumeric characters and single spaces (no
\* underscore or other punctuation), no run of two or more whitespace characters
\* and no leading or trailing whitespace.
C3_TitleAlphanumeric ==
    npc = "title" =>
        /\ \A i \in 1..Len(title_out) : title_out[i] \in Letters \cup Digits \cup {" "}
        /\ \A i \in 1..(Len(title_out) - 1) : ~(IsSpace(title_out[i]) /\ IsSpace(title_out[i + 1]))
        /\ title_out # <<>> => ~IsSpace(title_out[1]) /\ ~IsSpace(title_out[Len(title_out)])

(***************************************************************************)
(* The specifications: one per script entry point.  Each starts from the   *)
(* same initial state and takes the steps of one of them.                  *)
(***************************************************************************)
Init == InitNorm /\ InitMerge /\ InitStd /\ InitExtract

SpecNorm == Init /\ [][NextNorm]_vars

SpecMerge == Init /\ [][NextMerge]_vars

SpecStd == Init /\ [][NextStd]_vars

SpecExtract == Init /\ [][NextExtract]_vars

====
